---- MODULE Spec2Model ----
(***************************************************************************)
(* A model of the bitgravityzone client core: GravityZone.call (one        *)
(* JSON-RPC dispatch over HTTP), exceptions.raise_error (the error         *)
(* classification) and GravityZone.paginate (the page/perPage generator).  *)
(***************************************************************************)
EXTENDS Integers, Sequences, FiniteSets, TLC

VARIABLES
    items_per_page,  \* GravityZone.items_per_page, the class attribute
    gen,             \* per iteration: the paginate generator's frame
    received,        \* per iteration: the items next() has returned so far
    raised,          \* per iteration: the exception next() has raised, if any
    requests,        \* every HTTP request posted, in order, with its issuer
    responses,       \* every HTTP response received, in order, with its issuer
    server,          \* the remote service: its behaviour and its data set
    rpc              \* one direct invocation of GravityZone.call

vars == <<items_per_page, gen, received, raised, requests, responses, server, rpc>>

(***************************************************************************)
(* Bounds of the model.                                                    *)
(***************************************************************************)
MaxTotal == 5       \* the largest data set the server holds
MaxRequests == 4    \* cap on the requests of one iteration (endless servers)

\* client.py:14, the default page size.
DefaultItemsPerPage == 30

(***************************************************************************)
(* Values.  A Python/JSON value is a record [t, v]: t is the type tag and  *)
(* v a tuple holding the payload.  An optional field (a key of a mapping   *)
(* that may be absent) is the empty tuple or a one-element tuple.          *)
(***************************************************************************)
None == "None"
Absent == <<>>
Some(x) == <<x>>
Last(s) == s[Len(s)]

PyNone == [t |-> "NoneType", v |-> <<>>]
PyInt(n) == [t |-> "int", v |-> <<n>>]
PyStr(s) == [t |-> "str", v |-> <<s>>]
PyList == [t |-> "list", v |-> <<>>]
PyDict(d) == [t |-> "dict", v |-> <<d>>]

\* json.dumps of one parameter value (httpx encodes the json= argument).
JsonDumpsValue(x) ==
    CASE x.t = "NoneType" -> [t |-> "null", v |-> <<>>]
      [] x.t = "int" -> [t |-> "number", v |-> x.v]
      [] x.t = "str" -> [t |-> "string", v |-> x.v]

\* json.loads of one parameter value.
JsonLoadsValue(j) ==
    CASE j.t = "null" -> PyNone
      [] j.t = "number" -> [t |-> "int", v |-> j.v]
      [] j.t = "string" -> [t |-> "str", v |-> j.v]

JsonDumpsParams(params) == [k \in DOMAIN params |-> JsonDumpsValue(params[k])]
JsonLoadsParams(jparams) == [k \in DOMAIN jparams |-> JsonLoadsValue(jparams[k])]

\* dict.update: the keys of upd are added to, or overwritten in, d.
DictUpdate(d, upd) ==
    [k \in DOMAIN d \cup DOMAIN upd |-> IF k \in DOMAIN upd THEN upd[k] ELSE d[k]]

(***************************************************************************)
(* The request GravityZone.call builds (client.py:34-36).                  *)
(***************************************************************************)
BasePath == <<"v1.0", "jsonrpc">>

\* '/'.join(filter(None, (endpoint, service))): the path segments kept.
JoinPath(endpoint, service) ==
    SelectSeq(<<endpoint, service>>, LAMBDA s : s # None /\ s # "")

BuildRequest(endpoint, method, params, service) ==
    [path |-> BasePath \o JoinPath(endpoint, service),
     content |-> [id |-> 1, jsonrpc |-> "2.0", method |-> method,
                  params |-> JsonDumpsParams(params)]]

(***************************************************************************)
(* Response bodies, as resp.json() sees them.                              *)
(***************************************************************************)
MalformedBody == [t |-> "malformed", v |-> <<>>]
ArrayBody == [t |-> "array", v |-> <<>>]
ObjectBody(result, error) == [t |-> "object", v |-> <<[result |-> result, error |-> error]>>]

ErrorObject(code, data) == [t |-> "object", v |-> <<[code |-> code, data |-> data]>>]
ErrorString == [t |-> "string", v |-> <<>>]
DataObject(details) == [t |-> "object", v |-> <<[details |-> details]>>]
DataString == [t |-> "string", v |-> <<>>]

Response(status, body) == [status_code |-> status, body |-> body]

(***************************************************************************)
(* exceptions.py                                                           *)
(***************************************************************************)
PARSE_ERROR == -32700
INVALID_REQUEST == -32600
METHOD_NOT_FOUND == -32601
INVALID_PARAMS == -32602
SERVER_ERROR == -32000

\* The subclasses of ClientError, whose instances carry endpoint/method/params.
ClientErrorKinds == {"AuthenticationError", "AuthorizationError", "MethodNotFound", "InvalidParams"}
\* The classes rooted at GravityZoneException.
TypedErrorKinds == ClientErrorKinds \cup {"ClientError", "GravityZoneException"}

Return(value) == [kind |-> "return", exc |-> "", value |-> Some(value), msg |-> "", info |-> Absent]
Raise(exc, msg, info) == [kind |-> "raise", exc |-> exc, value |-> Absent, msg |-> msg, info |-> info]
\* An exception of the interpreter or of the json module, not of the client.
RaiseBuiltin(exc) == Raise(exc, "", Absent)

raise_error(request, response) ==
    LET doc == response.body IN
    IF doc.t = "malformed" THEN RaiseBuiltin("JSONDecodeError")
    ELSE IF doc.t # "object" THEN RaiseBuiltin("TypeError")
    ELSE IF doc.v[1].error = Absent THEN RaiseBuiltin("KeyError")
    ELSE
      LET err == doc.v[1].error[1]
          body == [method |-> request.content.method,
                   params |-> JsonLoadsParams(request.content.params)]
          info == [endpoint |-> Last(request.path),
                   method |-> body.method,
                   params |-> body.params]
      IN
      IF err.t # "object" THEN RaiseBuiltin("TypeError")
      ELSE IF err.v[1].data = Absent THEN RaiseBuiltin("KeyError")
      ELSE IF err.v[1].data[1].t # "object" THEN RaiseBuiltin("TypeError")
      ELSE IF err.v[1].data[1].v[1].details = Absent THEN RaiseBuiltin("KeyError")
      ELSE
        LET msg == err.v[1].data[1].v[1].details[1]
            code == err.v[1].code
        IN
        IF response.status_code = 401 THEN Raise("AuthenticationError", msg, Some(info))
        ELSE IF response.status_code = 403 THEN Raise("AuthorizationError", msg, Some(info))
        ELSE IF code = Absent THEN RaiseBuiltin("KeyError")
        ELSE IF code[1] = METHOD_NOT_FOUND THEN Raise("MethodNotFound", msg, Some(info))
        ELSE IF code[1] = INVALID_PARAMS THEN Raise("InvalidParams", msg, Some(info))
        ELSE Raise("GravityZoneException", msg, Absent)

(***************************************************************************)
(* GravityZone.call, from the response on (client.py:37-50).               *)
(***************************************************************************)
\* httpx.Response.raise_for_status raises unless the status is 2xx.
is_success(status_code) == status_code >= 200 /\ status_code <= 299

\* A variant that reads the result with .get and takes a null result for a missing one.
call_null_as_missing(request, response) ==
    IF ~is_success(response.status_code) THEN raise_error(request, response)
    ELSE IF response.body.t = "malformed" THEN RaiseBuiltin("JSONDecodeError")
    ELSE IF response.body.t # "object" THEN RaiseBuiltin("TypeError")
    ELSE IF response.body.v[1].result # Absent /\ response.body.v[1].result[1] # PyNone
    THEN Return(response.body.v[1].result[1])
    ELSE raise_error(request, response)

call(request, response) ==
    IF ~is_success(response.status_code) THEN raise_error(request, response)
    ELSE IF response.body.t = "malformed" THEN RaiseBuiltin("JSONDecodeError")
    ELSE IF response.body.t # "object" THEN RaiseBuiltin("TypeError")
    ELSE IF response.body.v[1].result # Absent THEN Return(response.body.v[1].result[1])
    ELSE raise_error(request, response)

(***************************************************************************)
(* GravityZone.paginate (client.py:52-72) as a generator frame.  A frame   *)
(* is suspended before its first next() ("new"), inside self.call while    *)
(* the HTTP exchange is outstanding ("wait"), at a yield ("suspended"),    *)
(* or finished ("done", "failed").  The operators below run the generator  *)
(* from one suspension point to the next and return an effect: the new     *)
(* frame, the item yielded, the exception raised and the request posted.   *)
(***************************************************************************)
Effect(g, yielded, err, req) == [g |-> g, yielded |-> yielded, err |-> err, req |-> req]

\* A variant that never moves the cursor past the first page.
fetch_first_page(g, page, ipp) ==
    LET p == DictUpdate(g.params, [page |-> PyInt(1), perPage |-> PyInt(ipp)])
    IN [g |-> [g EXCEPT !.params = p, !.page = 1, !.pc = "wait"],
        yielded |-> Absent, err |-> Absent,
        req |-> Some(BuildRequest(g.endpoint, g.method, p, g.service))]

\* client.py:62-63: params.update(...) on the caller's mapping, then call.
fetch(g, page, ipp) ==
    LET p == DictUpdate(g.params, [page |-> PyInt(page), perPage |-> PyInt(ipp)])
    IN Effect([g EXCEPT !.params = p, !.page = page, !.pc = "wait"],
              Absent, Absent,
              Some(BuildRequest(g.endpoint, g.method, p, g.service)))

\* A variant that wraps what self.call raised in the root exception.
fail_wrapped(g, err) ==
    Effect([g EXCEPT !.pc = "failed"], Absent,
           Some(Raise("GravityZoneException", err.msg, Absent)), Absent)

stop(g) == Effect([g EXCEPT !.pc = "done"], Absent, Absent, Absent)
fail(g, err) == Effect([g EXCEPT !.pc = "failed"], Absent, Some(err), Absent)

\* A variant that takes the response's page number to be zero-based.
is_last_page_zero_based(resp, page) == resp.page[1] + 1 = resp.pagesCount[1]

\* A variant that compares its own cursor with the page count.
is_last_page_by_cursor(resp, page) == page = resp.pagesCount[1]

\* client.py:70: resp['page'] == resp['pagesCount'].
is_last_page(resp, page) == resp.page[1] = resp.pagesCount[1]

\* A variant that posts the request for the next page as it yields the last
\* item of a page (a read-ahead).
yield_from_read_ahead(g, ipp) ==
    LET resp == g.resp[1].v[1] IN
    IF g.idx < Len(resp.items[1])
    THEN IF g.idx + 1 = Len(resp.items[1]) /\ resp.page # Absent /\ resp.pagesCount # Absent
            /\ ~is_last_page(resp, g.page)
         THEN Effect(fetch([g EXCEPT !.idx = g.idx + 1], g.page + 1, ipp).g,
                     Some(resp.items[1][g.idx + 1]), Absent,
                     fetch(g, g.page + 1, ipp).req)
         ELSE Effect([g EXCEPT !.idx = g.idx + 1, !.pc = "suspended"],
                     Some(resp.items[1][g.idx + 1]), Absent, Absent)
    ELSE IF resp.page = Absent \/ resp.pagesCount = Absent
    THEN fail(g, RaiseBuiltin("KeyError"))
    ELSE IF is_last_page(resp, g.page) THEN stop(g)
    ELSE fetch(g, g.page + 1, ipp)

\* client.py:68-72: the delegation to resp['items'] from position g.idx on,
\* then the test that ends the loop or moves to the next page.
yield_from(g, ipp) ==
    LET resp == g.resp[1].v[1] IN
    IF g.idx < Len(resp.items[1])
    THEN Effect([g EXCEPT !.idx = g.idx + 1, !.pc = "suspended"],
                Some(resp.items[1][g.idx + 1]), Absent, Absent)
    ELSE IF resp.page = Absent \/ resp.pagesCount = Absent
    THEN fail(g, RaiseBuiltin("KeyError"))
    ELSE IF is_last_page(resp, g.page) THEN stop(g)
    ELSE fetch(g, g.page + 1, ipp)

\* A variant that tests the page count instead of the total.
is_empty_by_pages(resp) == resp.pagesCount = Some(0)

\* client.py:65: resp.get('total') == 0.
is_empty(resp) == resp.total = Some(0)

\* client.py:63-68: self.call returns or raises; then the total test.
on_outcome(g, outcome, ipp) ==
    IF outcome.kind = "raise" THEN fail(g, outcome)
    ELSE
      LET r == outcome.value[1] IN
      IF r.t # "dict" THEN fail(g, RaiseBuiltin("AttributeError"))
      ELSE IF is_empty(r.v[1]) THEN stop([g EXCEPT !.resp = Some(r)])
      ELSE IF r.v[1].items = Absent
      THEN fail([g EXCEPT !.resp = Some(r)], RaiseBuiltin("KeyError"))
      ELSE yield_from([g EXCEPT !.resp = Some(r), !.idx = 0], ipp)

\* client.py:59-63 on the first next(), client.py:68-72 on a later one.
on_next(g, ipp) ==
    IF g.pc = "new" THEN fetch(g, 1, ipp) ELSE yield_from(g, ipp)

(***************************************************************************)
(* The remote service.                                                     *)
(***************************************************************************)
Iters == {"it1", "it2"}
RpcId == "rpc"

PageSizes == {2, 3, DefaultItemsPerPage}

Min(a, b) == IF a < b THEN a ELSE b
CeilDiv(a, b) == (a + b - 1) \div b

RECURSIVE Range(_, _)
Range(lo, hi) == IF lo > hi THEN <<>> ELSE <<lo>> \o Range(lo + 1, hi)

PageResult(total, items, page, pagesCount) ==
    PyDict([total |-> total, items |-> items, page |-> page, pagesCount |-> pagesCount])

ReqPage(request) == request.content.params.page.v[1]
ReqPerPage(request) == request.content.params.perPage.v[1]

\* The items of page p of a list of `total` items (numbered 1..total).
ItemsOfPage(total, p, perPage) == Range((p - 1) * perPage + 1, Min(p * perPage, total))

Ok(result) == Response(200, ObjectBody(Some(result), Absent))

\* A list service that reports total, pagesCount = ceil(total / perPage), the
\* requested page's items, and `page` as given.
PagedAnswer(request, total, page) ==
    Ok(PageResult(Some(total),
                  Some(ItemsOfPage(total, ReqPage(request), ReqPerPage(request))),
                  page,
                  Some(CeilDiv(total, ReqPerPage(request)))))

ErrorBody(code) == ObjectBody(Absent, Some(ErrorObject(Some(code), Some(DataObject(Some("details"))))))

FailureResponses ==
    {Response(s, ErrorBody(c)) : s \in {200, 401, 403, 500}, c \in {SERVER_ERROR, METHOD_NOT_FOUND}}
    \cup {Response(500, MalformedBody), Response(200, ObjectBody(Absent, Absent))}

\* What a list service whose list is empty may answer: total = 0 and anything else.
EmptyAnswers ==
    {Ok(PageResult(Some(0), items, page, pagesCount)) :
        items \in {Absent, Some(<<>>), Some(<<1, 2>>)},
        page \in {Absent, Some(0), Some(1)},
        pagesCount \in {Absent, Some(0), Some(1), Some(2)}}

\* A list service that reports pagesCount = 0 on every page, with the requested
\* page's items, the requested page number, and total present or absent.
NoPagesAnswers(request, total) ==
    {Ok(PageResult(t, Some(ItemsOfPage(total, ReqPage(request), ReqPerPage(request))),
                   Some(ReqPage(request)), Some(0))) :
        t \in {Absent, Some(total)}}

ServerModes == {"paged", "anypage", "flaky", "empty", "nopages"}

ServerAnswers(request) ==
    CASE server.mode = "paged" ->
           {PagedAnswer(request, server.total, Some(ReqPage(request)))}
      [] server.mode = "anypage" ->
           {PagedAnswer(request, server.total, Some(q)) : q \in 0..(ReqPage(request) + 1)}
      [] server.mode = "flaky" ->
           {PagedAnswer(request, server.total, Some(ReqPage(request)))} \cup FailureResponses
      [] server.mode = "empty" ->
           IF ReqPage(request) = 1 THEN EmptyAnswers
           ELSE {PagedAnswer(request, server.total, Some(ReqPage(request)))}
      [] server.mode = "nopages" -> NoPagesAnswers(request, server.total)

(***************************************************************************)
(* Histories.                                                              *)
(***************************************************************************)
RequestsOf(who) == SelectSeq(requests, LAMBDA e : e.who = who)
ResponsesOf(who) == SelectSeq(responses, LAMBDA e : e.who = who)

(***************************************************************************)
(* Iterations: the resource methods that paginate, and their consumers.    *)
(***************************************************************************)
\* get_accounts, get_endpoints, get_reports: the arguments they pass on.
PaginateArgs ==
    {[endpoint |-> "accounts", method |-> "getAccountsList",
      params |-> [companyId |-> PyNone], service |-> None],
     [endpoint |-> "network", method |-> "getEndpointsList",
      params |-> [parentId |-> PyStr("abc")], service |-> None],
     [endpoint |-> "reports", method |-> "getReportsList",
      params |-> [name |-> PyStr("r"), type |-> PyInt(1)], service |-> "computers"]}

NewFrame(a) ==
    [pc |-> "new", endpoint |-> a.endpoint, method |-> a.method, service |-> a.service,
     params |-> a.params, page |-> 0, resp |-> Absent, idx |-> 0]

Unused == [NewFrame(CHOOSE a \in PaginateArgs : a.endpoint = "accounts") EXCEPT !.pc = "unused"]

\* A variant that keeps the page cursor on the client, shared by all frames.
ApplyCursorOnClient(i, e) ==
    /\ gen' = [j \in Iters |-> IF j = i THEN e.g
                               ELSE IF gen[j].pc = "suspended" THEN [gen[j] EXCEPT !.page = e.g.page]
                               ELSE gen[j]]
    /\ received' = [received EXCEPT ![i] = IF e.yielded = Absent THEN @ ELSE Append(@, e.yielded[1])]
    /\ raised' = [raised EXCEPT ![i] = e.err]
    /\ requests' = IF e.req = Absent THEN requests
                   ELSE Append(requests, [who |-> i, request |-> e.req[1]])

\* One run of the frame of iteration i: its effect on the frame, the consumer
\* and the wire.
Apply(i, e) ==
    /\ gen' = [gen EXCEPT ![i] = e.g]
    /\ received' = [received EXCEPT ![i] = IF e.yielded = Absent THEN @ ELSE Append(@, e.yielded[1])]
    /\ raised' = [raised EXCEPT ![i] = e.err]
    /\ requests' = IF e.req = Absent THEN requests
                   ELSE Append(requests, [who |-> i, request |-> e.req[1]])

\* The consumer calls next() on the generator.
ConsumerNext(i) ==
    /\ gen[i].pc \in {"new", "suspended"}
    /\ LET e == on_next(gen[i], items_per_page) IN
         /\ e.req # Absent => Len(RequestsOf(i)) < MaxRequests
         /\ Apply(i, e)
    /\ UNCHANGED <<items_per_page, responses, server, rpc>>

\* The HTTP exchange of the outstanding self.call completes.
Receive(i) ==
    /\ gen[i].pc = "wait"
    /\ \E response \in ServerAnswers(Last(RequestsOf(i)).request) :
         LET e == on_outcome(gen[i], call(Last(RequestsOf(i)).request, response), items_per_page) IN
           /\ e.req # Absent => Len(RequestsOf(i)) < MaxRequests
           /\ Apply(i, e)
           /\ responses' = Append(responses, [who |-> i, response |-> response])
    /\ UNCHANGED <<items_per_page, server, rpc>>

\* A caller of call: its position, its arguments, what call returned or raised,
\* and the invocations it has completed.
IdleRpc == [pc |-> "idle", args |-> Absent, outcome |-> Absent, log |-> <<>>]

Init ==
    /\ items_per_page \in PageSizes
    /\ \E a \in PaginateArgs : gen = [i \in Iters |-> IF i = "it1" THEN NewFrame(a) ELSE Unused]
    /\ received = [i \in Iters |-> <<>>]
    /\ raised = [i \in Iters |-> Absent]
    /\ requests = <<>>
    /\ responses = <<>>
    /\ server \in [mode : ServerModes, total : 1..MaxTotal]
    /\ rpc = IdleRpc

Next == \E i \in Iters : ConsumerNext(i) \/ Receive(i)

Spec == Init /\ [][Next]_vars

(***************************************************************************)
(* An iteration whose consumer reconfigures the client between items.      *)
(***************************************************************************)
\* client.py:14: items_per_page is a plain attribute; the consumer assigns it
\* while it holds control, that is while no frame is inside self.call.
SetItemsPerPage ==
    /\ \A i \in Iters : gen[i].pc # "wait"
    /\ \E n \in PageSizes : n # items_per_page /\ items_per_page' = n
    /\ UNCHANGED <<gen, received, raised, requests, responses, server, rpc>>

NextReconfig == Next \/ SetItemsPerPage

SpecReconfig == Init /\ [][NextReconfig]_vars

(***************************************************************************)
(* One direct call (get_account_detail, get_reports' transport, ...).      *)
(***************************************************************************)
Endpoints == {"accounts", "reports"}
Methods == {"getAccountDetails", "getReportsList"}
Services == {None, "", "computers"}
ParamsSet == {[accountId |-> PyStr("a1")], [companyId |-> PyNone, page |-> PyInt(1)]}

CallArgs == [endpoint : Endpoints, method : Methods, params : ParamsSet, service : Services]

ResultValues ==
    {PyNone, PyInt(0), PyInt(7), PyStr(""), PyStr("id"), PyList,
     PageResult(Some(1), Some(<<1>>), Some(1), Some(1))}

StatusCodes == {200, 201, 401, 403, 404, 500}

ErrorValues ==
    {ErrorString}
    \cup {ErrorObject(code, data) :
            code \in {Absent, Some(METHOD_NOT_FOUND), Some(INVALID_PARAMS), Some(SERVER_ERROR),
                      Some(PARSE_ERROR), Some(INVALID_REQUEST)},
            data \in {Absent, Some(DataString), Some(DataObject(Absent)),
                      Some(DataObject(Some("details")))}}

Bodies ==
    {MalformedBody, ArrayBody}
    \cup {ObjectBody(result, error) :
            result \in {Absent} \cup {Some(r) : r \in ResultValues},
            error \in {Absent} \cup {Some(e) : e \in ErrorValues}}

AllResponses == {Response(s, b) : s \in StatusCodes, b \in Bodies}

RpcRequest == BuildRequest(rpc.args[1].endpoint, rpc.args[1].method,
                           rpc.args[1].params, rpc.args[1].service)

\* client.py:34-36: the envelope and path are built and the request is posted.
CallPost ==
    /\ rpc.pc = "idle"
    /\ \E a \in CallArgs :
         /\ rpc' = [rpc EXCEPT !.pc = "posted", !.args = Some(a)]
         /\ requests' = Append(requests,
              [who |-> RpcId, request |-> BuildRequest(a.endpoint, a.method, a.params, a.service)])
    /\ UNCHANGED <<items_per_page, gen, received, raised, responses, server>>

\* client.py:36-50: the response arrives; call returns its result or raises.
CallReceive ==
    /\ rpc.pc = "posted"
    /\ \E response \in AllResponses :
         /\ rpc' = [rpc EXCEPT !.pc = "done", !.outcome = Some(call(RpcRequest, response))]
         /\ responses' = Append(responses, [who |-> RpcId, response |-> response])
    /\ UNCHANGED <<items_per_page, gen, received, raised, requests, server>>

InitCall ==
    /\ items_per_page = DefaultItemsPerPage
    /\ gen = [i \in Iters |-> Unused]
    /\ received = [i \in Iters |-> <<>>]
    /\ raised = [i \in Iters |-> Absent]
    /\ requests = <<>>
    /\ responses = <<>>
    /\ server = [mode |-> "paged", total |-> 1]
    /\ rpc = IdleRpc

NextCall == CallPost \/ CallReceive

SpecCall == InitCall /\ [][NextCall]_vars

(***************************************************************************)
(* A caller that invokes call again and again, each invocation after the   *)
(* previous one has returned or raised.                                    *)
(***************************************************************************)
SeqArgs ==
    {[endpoint |-> "accounts", method |-> "getAccountDetails",
      params |-> [accountId |-> PyStr("a1")], service |-> None],
     [endpoint |-> "reports", method |-> "getReportsList",
      params |-> [companyId |-> PyNone, page |-> PyInt(1)], service |-> "computers"]}

SeqResponses ==
    {Ok(PyInt(7)), Response(401, ErrorBody(SERVER_ERROR)),
     Response(200, ErrorBody(METHOD_NOT_FOUND)), Response(500, MalformedBody)}

\* A variant that posts the request again when the server answers 5xx.
call_step_retry(request, response) ==
    IF response.status_code >= 500
    THEN [outcome |-> Absent, req |-> Some(request)]
    ELSE [outcome |-> Some(call(request, response)), req |-> Absent]

\* client.py:37-50: once post has returned a response, call returns or raises;
\* no path leads back to the post.
call_step(request, response) == [outcome |-> Some(call(request, response)), req |-> Absent]

\* client.py:36: the transport raises its own timeout exception out of post,
\* which is outside both try blocks.
on_timeout == RaiseBuiltin("TimeoutException")

Finish(response, outcome) ==
    rpc' = [rpc EXCEPT !.pc = "done", !.outcome = Some(outcome),
                       !.log = Append(@, [args |-> rpc.args[1], response |-> response,
                                          outcome |-> outcome])]

\* client.py:34-36: an invocation builds its request and posts it.
SeqInvoke ==
    /\ rpc.pc \in {"idle", "done"}
    /\ Len(RequestsOf(RpcId)) < MaxRequests
    /\ \E a \in SeqArgs :
         /\ rpc' = [rpc EXCEPT !.pc = "posted", !.args = Some(a), !.outcome = Absent]
         /\ requests' = Append(requests,
              [who |-> RpcId, request |-> BuildRequest(a.endpoint, a.method, a.params, a.service)])
    /\ UNCHANGED <<items_per_page, gen, received, raised, responses, server>>

\* client.py:36-50: the response arrives within the timeout.
SeqComplete ==
    /\ rpc.pc = "posted"
    /\ \E response \in SeqResponses :
         LET s == call_step(RpcRequest, response) IN
           /\ responses' = Append(responses, [who |-> RpcId, response |-> response])
           /\ IF s.req = Absent
              THEN Finish(Some(response), s.outcome[1]) /\ UNCHANGED requests
              ELSE /\ Len(RequestsOf(RpcId)) < MaxRequests
                   /\ requests' = Append(requests, [who |-> RpcId, request |-> s.req[1]])
                   /\ UNCHANGED rpc
    /\ UNCHANGED <<items_per_page, gen, received, raised, server>>

\* client.py:36: no response arrives within the timeout.
SeqTimeout ==
    /\ rpc.pc = "posted"
    /\ Finish(Absent, on_timeout)
    /\ UNCHANGED <<items_per_page, gen, received, raised, requests, responses, server>>

NextSeq == SeqInvoke \/ SeqComplete \/ SeqTimeout

SpecSeq == InitCall /\ [][NextSeq]_vars

(***************************************************************************)
(* Two iterations (get_accounts and get_reports) and a caller of call on    *)
(* one client, their steps interleaved in any order.  Each iteration has its own frame (the locals *)
(* of paginate, client.py:59) and its own params mapping; the client holds *)
(* items_per_page and the transport, which no step writes.                 *)
(***************************************************************************)
\* The page sizes that split the longest list in two pages.
TwoPageSizes == {n \in PageSizes : CeilDiv(MaxTotal, n) = 2}

InitConcurrent ==
    /\ items_per_page \in TwoPageSizes
    /\ \E a, b \in PaginateArgs :
         /\ a.endpoint = "accounts" /\ b.endpoint = "reports"
         /\ gen = [i \in Iters |-> IF i = "it1" THEN NewFrame(a) ELSE NewFrame(b)]
    /\ received = [i \in Iters |-> <<>>]
    /\ raised = [i \in Iters |-> Absent]
    /\ requests = <<>>
    /\ responses = <<>>
    /\ server \in [mode : {"paged"}, total : 1..MaxTotal]
    /\ rpc = IdleRpc

\* The caller invokes call once, at any point of the two iterations.
ConcInvoke == rpc.pc = "idle" /\ SeqInvoke

NextConcurrent == Next \/ ConcInvoke \/ SeqComplete \/ SeqTimeout

SpecConcurrent == InitConcurrent /\ [][NextConcurrent]_vars

(***************************************************************************)
(* Properties of paginate, checked under Spec.                             *)
(***************************************************************************)
Started(i) == gen[i].pc # "unused"

\* What the k-th self.call of iteration i returned or raised.
NthOutcome(i, k) == call(RequestsOf(i)[k].request, ResponsesOf(i)[k].response)

IsPrefix(s, t) == Len(s) <= Len(t) /\ \A k \in 1..Len(s) : s[k] = t[k]

PagesCount == CeilDiv(server.total, items_per_page)

\* Every answer so far reported total > 0, pagesCount = ceil(total / perPage) and
\* the requested page's items, and echoed the requested page number in `page`.
AnsweredPagedEcho(i) ==
    \A k \in 1..Len(ResponsesOf(i)) :
        ResponsesOf(i)[k].response =
            PagedAnswer(RequestsOf(i)[k].request, server.total,
                        Some(ReqPage(RequestsOf(i)[k].request)))

\* The same, with any page number in the `page` field of the answers.
AnsweredPaged(i) ==
    \A k \in 1..Len(ResponsesOf(i)) :
        \E q \in 0..(MaxRequests + 1) :
            ResponsesOf(i)[k].response =
                PagedAnswer(RequestsOf(i)[k].request, server.total, Some(q))

YieldsTotalInPagesCountRequests(i) ==
    /\ gen[i].pc # "failed"
    /\ IsPrefix(received[i], Range(1, server.total))
    /\ Len(RequestsOf(i)) <= PagesCount
    /\ \A k \in 1..Len(RequestsOf(i)) : ReqPage(RequestsOf(i)[k].request) = k
    /\ gen[i].pc = "done" =>
         /\ received[i] = Range(1, server.total)
         /\ Len(RequestsOf(i)) = PagesCount

\* C1, as amended: against a server that answers every request with total > 0,
\* pagesCount = ceil(total / perPage), the items of the requested page and the
\* requested page number in `page`, a fully consumed iteration yields exactly
\* the `total` items in page order and array order, and issues exactly
\* pagesCount requests (pages 1, 2, ...), never more.
C1_YieldsTotalItems ==
    \A i \in Iters : Started(i) /\ AnsweredPagedEcho(i) => YieldsTotalInPagesCountRequests(i)

C1_Witness ==
    /\ gen["it1"].pc = "done"
    /\ AnsweredPagedEcho("it1")
    /\ Len(RequestsOf("it1")) = 3
    /\ received["it1"] = <<1, 2, 3, 4, 5>>

\* C1, as stated: the same for every server that answers with total > 0,
\* pagesCount = ceil(total / perPage) and the items of the requested page,
\* whatever page number its answers carry.
C1_AsStated ==
    \A i \in Iters : Started(i) /\ AnsweredPaged(i) => YieldsTotalInPagesCountRequests(i)

\* The first self.call of iteration i returned a mapping whose total is 0.
FirstTotalIsZero(i) ==
    /\ Len(ResponsesOf(i)) >= 1
    /\ NthOutcome(i, 1).kind = "return"
    /\ NthOutcome(i, 1).value[1].t = "dict"
    /\ NthOutcome(i, 1).value[1].v[1].total = Some(0)

\* C2: when the first-page response reports total = 0, the iteration ends having
\* yielded no item and issued exactly one request, whatever the items, page and
\* pagesCount fields of that response hold.
C2_EmptySetOneRequest ==
    \A i \in Iters :
        Started(i) /\ FirstTotalIsZero(i) =>
            /\ gen[i].pc = "done"
            /\ received[i] = <<>>
            /\ raised[i] = Absent
            /\ Len(RequestsOf(i)) = 1

C2_Witness ==
    /\ FirstTotalIsZero("it1")
    /\ gen["it1"].pc = "done"
    /\ gen["it1"].resp[1].v[1].items = Some(<<1, 2>>)
    /\ gen["it1"].resp[1].v[1].page = Some(1)
    /\ gen["it1"].resp[1].v[1].pagesCount = Some(2)

\* The items of the first n answers of iteration i, in order.
RECURSIVE ItemsUpTo(_, _)
ItemsUpTo(i, n) ==
    IF n = 0 THEN <<>>
    ELSE ItemsUpTo(i, n - 1) \o NthOutcome(i, n).value[1].v[1].items[1]

\* The self.call for page k >= 2 of iteration i raised.
DispatchFailedAt(i, k) ==
    /\ k >= 2
    /\ Len(ResponsesOf(i)) = k
    /\ ReqPage(RequestsOf(i)[k].request) = k
    /\ NthOutcome(i, k).kind = "raise"

\* C3: when the dispatch for page k >= 2 fails, next() has returned every item of
\* pages 1..k-1 in order, then raises the very error the dispatch raised, and no
\* request follows the one for page k.
C3_MidStreamFailure ==
    \A i \in Iters : \A k \in 2..MaxRequests :
        Started(i) /\ DispatchFailedAt(i, k) =>
            /\ gen[i].pc = "failed"
            /\ received[i] = ItemsUpTo(i, k - 1)
            /\ raised[i] = Some(NthOutcome(i, k))
            /\ Len(RequestsOf(i)) = k

C3_Witness ==
    /\ DispatchFailedAt("it1", 2)
    /\ ResponsesOf("it1")[2].response.status_code = 403
    /\ raised["it1"] # Absent
    /\ raised["it1"][1].exc = "AuthorizationError"
    /\ received["it1"] = <<1, 2>>
    /\ server.total = 5

(***************************************************************************)
(* Properties of call and raise_error, checked under SpecCall.             *)
(***************************************************************************)
Called == rpc.pc = "done"
RpcArgs == rpc.args[1]
RpcResponse == Last(ResponsesOf(RpcId)).response
RpcOutcome == rpc.outcome[1]

HasResult(response) == response.body.t = "object" /\ response.body.v[1].result # Absent
HasErrorObject(response) ==
    /\ response.body.t = "object"
    /\ response.body.v[1].error # Absent
    /\ response.body.v[1].error[1].t = "object"
\* The RPC error code a response carries: absent, or present with its value.
ErrorCode(response) ==
    IF HasErrorObject(response) THEN response.body.v[1].error[1].v[1].code ELSE Absent
\* The error object has the wire protocol's shape {code, data: {details}}.
HasErrorDetails(response) ==
    /\ HasErrorObject(response)
    /\ response.body.v[1].error[1].v[1].data # Absent
    /\ response.body.v[1].error[1].v[1].data[1].t = "object"
    /\ response.body.v[1].error[1].v[1].data[1].v[1].details # Absent

\* The classes that can stand for the spec's GenericClientError.
GenericKinds == {"ClientError", "GravityZoneException"}

Failed(kind) == RpcOutcome.kind = "raise" /\ RpcOutcome.exc = kind

\* The request context an error should carry: what was passed to call.
RequestContext ==
    [endpoint |-> RpcArgs.endpoint, method |-> RpcArgs.method, params |-> RpcArgs.params]

C5_Status401IsAuthenticationError ==
    Called /\ RpcResponse.status_code = 401 => Failed("AuthenticationError")

\* C6: for every response with HTTP status 403, call fails with
\* AuthorizationError, whatever the body carries.
C6_Status403IsAuthorizationError ==
    Called /\ RpcResponse.status_code = 403 => Failed("AuthorizationError")

\* C7: for a response with HTTP status 200, no result key and an error object,
\* call fails with MethodNotFound when error.code is -32601 and with
\* InvalidParams when it is -32602, and returns no value.
C7_RpcCodeOnStatus200 ==
    Called /\ RpcResponse.status_code = 200 /\ ~HasResult(RpcResponse)
           /\ HasErrorObject(RpcResponse) =>
        /\ ErrorCode(RpcResponse) = Some(METHOD_NOT_FOUND) => Failed("MethodNotFound")
        /\ ErrorCode(RpcResponse) = Some(INVALID_PARAMS) => Failed("InvalidParams")

\* C8: a failed call whose HTTP status is neither 401 nor 403 and whose RPC error
\* code is neither -32601 nor -32602 fails with the generic kind, and the error
\* carries the endpoint, method and params of the request.  (Stated for the
\* responses that carry an error object {code, data: {details}}: the last
\* classified row of the table; C9 is about the other bodies.)
C8_GenericErrorCarriesContext ==
    Called /\ RpcOutcome.kind = "raise"
           /\ RpcResponse.status_code \notin {401, 403}
           /\ HasErrorDetails(RpcResponse)
           /\ ErrorCode(RpcResponse) \notin {Absent, Some(METHOD_NOT_FOUND), Some(INVALID_PARAMS)} =>
        /\ RpcOutcome.exc \in GenericKinds
        /\ RpcOutcome.info = Some(RequestContext)

\* C9: a malformed body, or a JSON body with neither result nor error, at HTTP
\* 200 or at a 4xx/5xx status other than 401 and 403, makes call fail with the
\* generic kind: no value is returned and no error outside the client's
\* taxonomy is raised.
C9_MalformedBodyIsGenericError ==
    Called /\ (RpcResponse.status_code = 200
                 \/ (RpcResponse.status_code >= 400 /\ RpcResponse.status_code \notin {401, 403}))
           /\ (RpcResponse.body.t = "malformed"
                 \/ (RpcResponse.body.t = "object"
                       /\ RpcResponse.body.v[1].result = Absent
                       /\ RpcResponse.body.v[1].error = Absent)) =>
        /\ RpcOutcome.kind = "raise"
        /\ RpcOutcome.exc \in GenericKinds

\* C10: every AuthenticationError, AuthorizationError, MethodNotFound and
\* InvalidParams that call raises carries the request's context: endpoint is the
\* resource passed to call (also with a sub-service), method the method passed,
\* params the params sent.
C10_ErrorsCarryRequestContext ==
    Called /\ RpcOutcome.kind = "raise" /\ RpcOutcome.exc \in ClientErrorKinds =>
        RpcOutcome.info = Some(RequestContext)

\* The classification table on error objects of the wire protocol's shape: the
\* HTTP status first, then the RPC error code, then the root exception.
ClassificationOfWireErrors ==
    Called /\ HasErrorDetails(RpcResponse)
           /\ (RpcResponse.status_code >= 400 \/ ~HasResult(RpcResponse)) =>
        IF RpcResponse.status_code = 401 THEN Failed("AuthenticationError")
        ELSE IF RpcResponse.status_code = 403 THEN Failed("AuthorizationError")
        ELSE IF ErrorCode(RpcResponse) = Absent THEN Failed("KeyError")
        ELSE IF ErrorCode(RpcResponse) = Some(METHOD_NOT_FOUND) THEN Failed("MethodNotFound")
        ELSE IF ErrorCode(RpcResponse) = Some(INVALID_PARAMS) THEN Failed("InvalidParams")
        ELSE Failed("GravityZoneException") /\ RpcOutcome.info = Absent

\* Without a sub-service, the context of a ClientError is the request's.
ContextWithoutSubService ==
    Called /\ RpcOutcome.kind = "raise" /\ RpcOutcome.exc \in ClientErrorKinds
           /\ RpcArgs.service \in {None, ""} =>
        RpcOutcome.info = Some(RequestContext)

(***************************************************************************)
(* The order of requests and items within one iteration, under Spec.       *)
(***************************************************************************)
PostsRequest(i) == Len(RequestsOf(i))' > Len(RequestsOf(i))

\* Every item of every answer received so far has been handed to the consumer.
AllDelivered(i) == received[i] = ItemsUpTo(i, Len(ResponsesOf(i)))

\* C11: paginate is consumer-driven.  A request is posted only in a step in
\* which the consumer calls next() or is blocked inside it; the first request is
\* posted by the first next(); the step hands no item over, leaves the consumer
\* blocked, and finds every item of every earlier page already delivered.
C11_ConsumerDriven ==
    [][\A i \in Iters :
          PostsRequest(i) =>
              /\ gen[i].pc \in {"new", "suspended", "wait"}
              /\ (gen[i].pc = "new") <=> (RequestsOf(i) = <<>>)
              /\ received'[i] = received[i]
              /\ gen'[i].pc = "wait"
              /\ AllDelivered(i)']_vars

\* The consumer holds the last item of page 1 of several: no request for page 2.
C11_Witness ==
    /\ gen["it1"].pc = "suspended"
    /\ AnsweredPagedEcho("it1")
    /\ PagesCount >= 2
    /\ AllDelivered("it1")
    /\ Len(RequestsOf("it1")) = 1

\* C12: within one iteration the requests carry pages 1, 2, 3, ... without gap or
\* repeat; at most one request is outstanding; and while the request for page
\* N+1 is outstanding the answer to page N has arrived and all its items have
\* been yielded.
C12_StrictlySequential ==
    \A i \in Iters :
        Started(i) =>
            /\ \A k \in 1..Len(RequestsOf(i)) : ReqPage(RequestsOf(i)[k].request) = k
            /\ Len(RequestsOf(i)) - Len(ResponsesOf(i)) \in {0, 1}
            /\ (gen[i].pc = "wait") <=> (Len(RequestsOf(i)) = Len(ResponsesOf(i)) + 1)
            /\ gen[i].pc = "wait" => AllDelivered(i)

C12_Witness ==
    /\ gen["it1"].pc = "wait"
    /\ Len(RequestsOf("it1")) = 3
    /\ Len(ResponsesOf("it1")) = 2
    /\ received["it1"] = <<1, 2, 3, 4>>


(***************************************************************************)
(* Properties of successive calls, checked under SpecSeq.                  *)
(***************************************************************************)
\* The invocations of call so far: the completed ones and the one in progress.
Invocations == Len(rpc.log) + (IF rpc.pc = "posted" THEN 1 ELSE 0)
\* The completed invocations that got a response.
Answered == SelectSeq(rpc.log, LAMBDA e : e.response # Absent)
ArgsRequest(a) == BuildRequest(a.endpoint, a.method, a.params, a.service)

\* C13: every invocation of call performs exactly one HTTP request, whether it
\* succeeds or fails: the k-th request on the wire is the k-th invocation's, a
\* failed invocation is not retried, and each response received is the answer
\* of exactly one invocation, whose outcome is computed from its own request
\* and that response.
C13_OneRequestPerCall ==
    /\ Len(RequestsOf(RpcId)) = Invocations
    /\ Len(ResponsesOf(RpcId)) = Len(Answered)
    /\ \A j \in 1..Len(Answered) : Answered[j].response[1] = ResponsesOf(RpcId)[j].response
    /\ \A k \in 1..Len(rpc.log) :
         /\ RequestsOf(RpcId)[k].request = ArgsRequest(rpc.log[k].args)
         /\ rpc.log[k].response # Absent =>
              rpc.log[k].outcome = call(RequestsOf(RpcId)[k].request, rpc.log[k].response[1])

\* Three invocations done: one failed on a 5xx answer, one timed out, one succeeded.
C13_Witness ==
    /\ rpc.pc = "done"
    /\ Len(rpc.log) = 3
    /\ rpc.log[1].response = Some(Response(500, MalformedBody))
    /\ rpc.log[2].response = Absent
    /\ rpc.log[3].outcome = Return(PyInt(7))
    /\ Len(RequestsOf(RpcId)) = 3

\* C14: when the HTTP request does not complete within the timeout, call fails
\* with an error of the client's own taxonomy (a Timeout kind).
C14_TimeoutIsTypedError ==
    \A k \in 1..Len(rpc.log) :
        rpc.log[k].response = Absent =>
            /\ rpc.log[k].outcome.kind = "raise"
            /\ rpc.log[k].outcome.exc \in TypedErrorKinds \cup {"Timeout"}

\* What the code does on a timeout: the transport's exception leaves call as it is.
TimeoutPropagatesTransportError ==
    \A k \in 1..Len(rpc.log) :
        rpc.log[k].response = Absent => rpc.log[k].outcome = RaiseBuiltin("TimeoutException")


(***************************************************************************)
(* Properties of paginate under reconfiguration, checked under             *)
(* SpecReconfig.                                                           *)
(***************************************************************************)
\* C15: every request of one paginate iteration carries the same perPage, the
\* page size configured when the iteration started; a change of items_per_page
\* while the iteration is suspended between pages does not alter the perPage
\* of its later requests.
C15_PerPageFixed ==
    \A i \in Iters : \A k \in 1..Len(RequestsOf(i)) :
        ReqPerPage(RequestsOf(i)[k].request) = ReqPerPage(RequestsOf(i)[1].request)

\* What the code does: each request carries the items_per_page in force when
\* it is posted, so the request in flight always carries the current value.
PerPageIsReadAtEachRequest ==
    \A i \in Iters : gen[i].pc = "wait" =>
        ReqPerPage(Last(RequestsOf(i)).request) = items_per_page

\* A consequence under a well-behaved server: with the page size changed from
\* 2 to 3 after the first page, a completed iteration misses an item.
ReconfiguredIterationIsComplete ==
    \A i \in Iters :
        gen[i].pc = "done" /\ server.mode = "paged" => Len(received[i]) = server.total


(***************************************************************************)
(* Properties of interleaved iterations, checked under SpecConcurrent.     *)
(***************************************************************************)
\* The k-th request an iteration sends when it runs alone: its own endpoint,
\* method, service and params, with page k and the client's page size.
SoloRequest(i, k) ==
    BuildRequest(gen[i].endpoint, gen[i].method,
                 DictUpdate(gen[i].params, [page |-> PyInt(k), perPage |-> PyInt(items_per_page)]),
                 gen[i].service)

\* C16: with two paginate iterations, each on its own params mapping, and any
\* number of call invocations interleaved in any order, each iteration sends
\* the requests it sends when it runs alone (page 1, 2, ... with the same
\* perPage and its own parameters) and yields the items it yields alone: the
\* list's items in order, all of them once it is done, in pagesCount requests.
C16_IterationsIndependent ==
    \A i \in Iters :
        /\ YieldsTotalInPagesCountRequests(i)
        /\ \A k \in 1..Len(RequestsOf(i)) : RequestsOf(i)[k].request = SoloRequest(i, k)
        /\ Len(ResponsesOf(i)) >= 1 => IsPrefix(ItemsUpTo(i, Len(ResponsesOf(i)) - 1), received[i])
        /\ IsPrefix(received[i], ItemsUpTo(i, Len(ResponsesOf(i))))

\* Both iterations done, their requests alternating with each other and with
\* a call.
C16_Witness ==
    /\ \A i \in Iters : gen[i].pc = "done" /\ received[i] = <<1, 2, 3, 4, 5>>
    /\ gen["it1"].endpoint # gen["it2"].endpoint
    /\ Len(requests) = 5
    /\ requests[1].who = "it1"
    /\ requests[2].who = "it2"
    /\ requests[3].who = RpcId
    /\ requests[4].who = "it1"
    /\ rpc.pc = "done"


(***************************************************************************)
(* The end of the loop of paginate, checked under Spec.                    *)
(***************************************************************************)
\* The k-th self.call of iteration i returned a page: a mapping with a
\* non-zero or absent total and with items, page and pagesCount.
ReturnedPage(i, k) ==
    /\ k \in 1..Len(ResponsesOf(i))
    /\ NthOutcome(i, k).kind = "return"
    /\ NthOutcome(i, k).value[1].t = "dict"
    /\ NthOutcome(i, k).value[1].v[1].total # Some(0)
    /\ NthOutcome(i, k).value[1].v[1].items # Absent
    /\ NthOutcome(i, k).value[1].v[1].page # Absent
    /\ NthOutcome(i, k).value[1].v[1].pagesCount # Absent
PageOf(i, k) == NthOutcome(i, k).value[1].v[1]

\* The decision taken after the items of page k were yielded: the iteration
\* ended there, or went on to request page k + 1, or has not decided yet.
EndedAfter(i, k) == gen[i].pc = "done" /\ Len(RequestsOf(i)) = k
WentOnAfter(i, k) ==
    /\ Len(RequestsOf(i)) > k
    /\ ReqPage(RequestsOf(i)[k + 1].request) = k + 1
Undecided(i, k) ==
    /\ Len(RequestsOf(i)) = k
    /\ gen[i].pc = "suspended"
    /\ gen[i].idx <= Len(PageOf(i, k).items[1])

\* C17, as amended: after yielding the items of a page, paginate ends exactly
\* when the `page` field of that response equals its pagesCount field, and
\* otherwise requests the page after the one it requested; total and items do
\* not enter the decision.
C17_EndsWhenResponsePageIsLast ==
    \A i \in Iters : \A k \in 1..Len(ResponsesOf(i)) :
        Started(i) /\ ReturnedPage(i, k) =>
            /\ EndedAfter(i, k) \/ WentOnAfter(i, k) \/ Undecided(i, k)
            /\ EndedAfter(i, k) => PageOf(i, k).page = PageOf(i, k).pagesCount
            /\ WentOnAfter(i, k) => PageOf(i, k).page # PageOf(i, k).pagesCount

\* An iteration that ended on its first request although the list has two
\* pages, because the response carried page = pagesCount = 2.
C17_Witness ==
    /\ ReturnedPage("it1", 1)
    /\ EndedAfter("it1", 1)
    /\ PageOf("it1", 1).pagesCount = Some(2)
    /\ received["it1"] = <<1, 2, 3>>
    /\ server.total = 5

\* C17, as stated: the iteration ends exactly when the page number it
\* requested equals the pagesCount of the response.
C17_AsStated ==
    \A i \in Iters : \A k \in 1..Len(ResponsesOf(i)) :
        Started(i) /\ ReturnedPage(i, k) =>
            /\ EndedAfter(i, k) => PageOf(i, k).pagesCount = Some(k)
            /\ WentOnAfter(i, k) => PageOf(i, k).pagesCount # Some(k)

(***************************************************************************)
(* Termination of paginate, checked under Spec.                            *)
(***************************************************************************)
\* Every answer so far was a page with pagesCount = n and the requested page
\* number in `page`.
AnsweredWithPagesCount(i, n) ==
    /\ Len(ResponsesOf(i)) >= 1
    /\ \A k \in 1..Len(ResponsesOf(i)) :
         /\ ReturnedPage(i, k)
         /\ PageOf(i, k).pagesCount = Some(n)
         /\ PageOf(i, k).page = Some(ReqPage(RequestsOf(i)[k].request))

Max(a, b) == IF a > b THEN a ELSE b

\* C18: against a server that answers every request successfully with finite
\* items and a fixed pagesCount n >= 0 (0 included, with total non-zero or
\* absent), the iteration is finite: it issues no request beyond the one for
\* page n, or beyond the first when n = 0.
C18_FiniteIteration ==
    \A i \in Iters : \A n \in 0..MaxTotal :
        Started(i) /\ AnsweredWithPagesCount(i, n) => Len(RequestsOf(i)) <= Max(n, 1)

\* What the code does against a server whose pagesCount is 0: no step ends
\* the iteration, and after the items of page k it requests page k + 1.
NoPagesNeverEnds ==
    \A i \in Iters :
        Started(i) /\ server.mode = "nopages" =>
            /\ gen[i].pc \in {"new", "wait", "suspended"}
            /\ \A k \in 1..Len(ResponsesOf(i)) : WentOnAfter(i, k) \/ Undecided(i, k)

====
